---- MODULE Spec2Model ----
(***************************************************************************)
(* Chess-MCP move selection (SmartChessAI / ChessAI of src/chess-ai.ts,    *)
(* concatenated into src/src/chess-engine.ts): board snapshots, the        *)
(* search-internal move generator, the evaluator, the transposition table, *)
(* the move-ordering cache, the iterative-deepening driver and the tier    *)
(* routing, as a state machine.                                            *)
(***************************************************************************)
EXTENDS Integers, Sequences, FiniteSets, TLC

(***************************************************************************)
(* Bounds of the model.                                                    *)
(***************************************************************************)
\* the deadline passes before more than MaxNodes search nodes were entered
MaxNodes == 6
\* capacity of the transposition table (1,000,000 in the source, scaled)
maxTableSize == 10
\* capacity of the move-ordering cache (100,000 in the source, scaled)
maxOrderingCacheSize == 12
\* number of store operations applied in the table specification
MaxStores == 2
\* number of move-selection calls made on one engine instance
MaxCalls == 1

(***************************************************************************)
(* Numbers: Infinity is a sentinel larger than any evaluation.             *)
(***************************************************************************)
Infinity == 1000000
WinningScore == 9000
QuiescenceCeiling == 10

Max(a, b) == IF a >= b THEN a ELSE b
Min(a, b) == IF a <= b THEN a ELSE b
Abs(a) == IF a >= 0 THEN a ELSE 0 - a

(***************************************************************************)
(* Pieces, squares, moves.                                                 *)
(* A square name such as "e2" is the pair of its file letter (char code    *)
(* minus 97) and its digit; squares[rank][file] has rank 0 = 8th rank.     *)
(***************************************************************************)
Null == [type |-> "none", color |-> "none"]
Piece(t, c) == [type |-> t, color |-> c]
Idx == 0..7

\* String.fromCharCode(97 + file) + (8 - rank)
squareName(rank, file) == [c |-> file, d |-> 8 - rank]
\* 8 - parseInt(square[1]) and square.charCodeAt(0) - 97
rankOf(square) == 8 - square.d
fileOf(square) == square.c

Mv(f, t) == [from |-> f, to |-> t]
\* the value of moves[0] of an empty list, and of "no book move"
Undefined == [from |-> [c |-> -1, d |-> -1], to |-> [c |-> -1, d |-> -1]]

opponent(color) == IF color = "w" THEN "b" ELSE "w"

pieceValues(t) ==
  CASE t = "p" -> 100 [] t = "n" -> 320 [] t = "b" -> 330
    [] t = "r" -> 500 [] t = "q" -> 900 [] t = "k" -> 20000 [] OTHER -> 0

positionValues(t) ==
  CASE t = "p" -> << <<0, 0, 0, 0, 0, 0, 0, 0>>,
                     <<50, 50, 50, 50, 50, 50, 50, 50>>,
                     <<10, 10, 20, 30, 30, 20, 10, 10>>,
                     <<5, 5, 10, 25, 25, 10, 5, 5>>,
                     <<0, 0, 0, 20, 20, 0, 0, 0>>,
                     <<5, -5, -10, 0, 0, -10, -5, 5>>,
                     <<5, 10, 10, -20, -20, 10, 10, 5>>,
                     <<0, 0, 0, 0, 0, 0, 0, 0>> >>
    [] t = "n" -> << <<-50, -40, -30, -30, -30, -30, -40, -50>>,
                     <<-40, -20, 0, 0, 0, 0, -20, -40>>,
                     <<-30, 0, 10, 15, 15, 10, 0, -30>>,
                     <<-30, 5, 15, 20, 20, 15, 5, -30>>,
                     <<-30, 0, 15, 20, 20, 15, 0, -30>>,
                     <<-30, 5, 10, 15, 15, 10, 5, -30>>,
                     <<-40, -20, 0, 5, 5, 0, -20, -40>>,
                     <<-50, -40, -30, -30, -30, -30, -40, -50>> >>
    [] t = "b" -> << <<-20, -10, -10, -10, -10, -10, -10, -20>>,
                     <<-10, 0, 0, 0, 0, 0, 0, -10>>,
                     <<-10, 0, 5, 10, 10, 5, 0, -10>>,
                     <<-10, 5, 5, 10, 10, 5, 5, -10>>,
                     <<-10, 0, 10, 10, 10, 10, 0, -10>>,
                     <<-10, 10, 10, 10, 10, 10, 10, -10>>,
                     <<-10, 5, 0, 0, 0, 0, 5, -10>>,
                     <<-20, -10, -10, -10, -10, -10, -10, -20>> >>
    [] t = "r" -> << <<0, 0, 0, 0, 0, 0, 0, 0>>,
                     <<5, 10, 10, 10, 10, 10, 10, 5>>,
                     <<-5, 0, 0, 0, 0, 0, 0, -5>>,
                     <<-5, 0, 0, 0, 0, 0, 0, -5>>,
                     <<-5, 0, 0, 0, 0, 0, 0, -5>>,
                     <<-5, 0, 0, 0, 0, 0, 0, -5>>,
                     <<-5, 0, 0, 0, 0, 0, 0, -5>>,
                     <<0, 0, 0, 5, 5, 0, 0, 0>> >>
    [] t = "q" -> << <<-20, -10, -10, -5, -5, -10, -10, -20>>,
                     <<-10, 0, 0, 0, 0, 0, 0, -10>>,
                     <<-10, 0, 5, 5, 5, 5, 0, -10>>,
                     <<-5, 0, 5, 5, 5, 5, 0, -5>>,
                     <<0, 0, 5, 5, 5, 5, 0, -5>>,
                     <<-10, 5, 5, 5, 5, 5, 0, -10>>,
                     <<-10, 0, 5, 0, 0, 0, 0, -10>>,
                     <<-20, -10, -10, -5, -5, -10, -10, -20>> >>
    [] t = "k" -> << <<-30, -40, -40, -50, -50, -40, -40, -30>>,
                     <<-30, -40, -40, -50, -50, -40, -40, -30>>,
                     <<-30, -40, -40, -50, -50, -40, -40, -30>>,
                     <<-30, -40, -40, -50, -50, -40, -40, -30>>,
                     <<-20, -30, -30, -40, -40, -30, -30, -20>>,
                     <<-10, -20, -20, -20, -20, -20, -20, -10>>,
                     <<20, 20, 0, 0, 0, 0, 20, 20>>,
                     <<20, 30, 10, 0, 0, 10, 30, 20>> >>
    [] OTHER -> << >>

getPositionValue(pieceType, color, rank, file) ==
  LET positionTable == positionValues(pieceType)
      actualRank == IF color = "w" THEN rank ELSE 7 - rank
  IN IF positionTable = << >> THEN 0 ELSE positionTable[actualRank + 1][file + 1]

(***************************************************************************)
(* Search-internal move generator.                                         *)
(***************************************************************************)
RookDirs   == << <<0, 1>>, <<0, -1>>, <<1, 0>>, <<-1, 0>> >>
BishopDirs == << <<1, 1>>, <<1, -1>>, <<-1, 1>>, <<-1, -1>> >>
QueenDirs  == RookDirs \o BishopDirs
KingJumps  == QueenDirs
KnightJumps == << <<-2, -1>>, <<-2, 1>>, <<-1, -2>>, <<-1, 2>>,
                  <<1, -2>>, <<1, 2>>, <<2, -1>>, <<2, 1>> >>

\* the while loop of addLinearMoves along one direction
RECURSIVE slideMoves(_, _, _, _, _, _, _)
slideMoves(board, rank, file, fromSquare, newRank, newFile, dir) ==
  IF newRank >= 0 /\ newRank < 8 /\ newFile >= 0 /\ newFile < 8
  THEN LET targetPiece == board[newRank][newFile]
           toSquare == squareName(newRank, newFile)
       IN IF targetPiece = Null
          THEN <<Mv(fromSquare, toSquare)>>
               \o slideMoves(board, rank, file, fromSquare,
                             newRank + dir[1], newFile + dir[2], dir)
          ELSE IF targetPiece.color # board[rank][file].color
               THEN <<Mv(fromSquare, toSquare)>>
               ELSE << >>
  ELSE << >>

RECURSIVE addLinearMoves(_, _, _, _, _, _)
addLinearMoves(board, rank, file, fromSquare, directions, i) ==
  IF i > Len(directions) THEN << >>
  ELSE slideMoves(board, rank, file, fromSquare,
                  rank + directions[i][1], file + directions[i][2], directions[i])
       \o addLinearMoves(board, rank, file, fromSquare, directions, i + 1)

RECURSIVE addJumpMoves(_, _, _, _, _, _)
addJumpMoves(board, rank, file, fromSquare, jumps, i) ==
  IF i > Len(jumps) THEN << >>
  ELSE LET newRank == rank + jumps[i][1]
           newFile == file + jumps[i][2]
           here == IF newRank >= 0 /\ newRank < 8 /\ newFile >= 0 /\ newFile < 8
                   THEN LET targetPiece == board[newRank][newFile]
                        IN IF targetPiece = Null
                              \/ targetPiece.color # board[rank][file].color
                           THEN <<Mv(fromSquare, squareName(newRank, newFile))>>
                           ELSE << >>
                   ELSE << >>
       IN here \o addJumpMoves(board, rank, file, fromSquare, jumps, i + 1)

generateBasicMoves(board, rank, file, piece) ==
  LET fromSquare == squareName(rank, file) IN
  CASE piece.type = "p" ->
         LET direction == IF piece.color = "w" THEN -1 ELSE 1
             newRank == rank + direction
         IN IF newRank >= 0 /\ newRank < 8 /\ board[newRank][file] = Null
            THEN <<Mv(fromSquare, squareName(newRank, file))>>
            ELSE << >>
    [] piece.type = "r" -> addLinearMoves(board, rank, file, fromSquare, RookDirs, 1)
    [] piece.type = "n" -> addJumpMoves(board, rank, file, fromSquare, KnightJumps, 1)
    [] piece.type = "b" -> addLinearMoves(board, rank, file, fromSquare, BishopDirs, 1)
    [] piece.type = "q" -> addLinearMoves(board, rank, file, fromSquare, QueenDirs, 1)
    [] piece.type = "k" -> addJumpMoves(board, rank, file, fromSquare, KingJumps, 1)
    [] OTHER -> << >>

\* the rank/file double loop, square k = 8 * rank + file; the squares from k
\* to the end of its rank, then the ranks after it
RECURSIVE movesFromSquare(_, _, _)
movesFromSquare(squares, color, k) ==
  IF k > 63 THEN << >>
  ELSE LET rank == k \div 8
           movesAt(file) ==
             LET piece == squares[rank][file]
             IN IF file >= k % 8 /\ piece # Null /\ piece.color = color
                THEN generateBasicMoves(squares, rank, file, piece)
                ELSE << >>
       IN movesAt(0) \o movesAt(1) \o movesAt(2) \o movesAt(3) \o movesAt(4)
          \o movesAt(5) \o movesAt(6) \o movesAt(7)
          \o movesFromSquare(squares, color, 8 * (rank + 1))

getLegalMovesForBoard(squares, color) == movesFromSquare(squares, color, 0)

(***************************************************************************)
(* Board values.  A value handed around by the search is either a plain    *)
(* 8x8 array (arr = TRUE) or an object with a .squares property.  rows is  *)
(* what board[rank] yields: the array itself for an array, the numeric     *)
(* keys copied by the object spread of copyBoard for an object.  own tells *)
(* whether the squares grid is the caller's own object or a fresh copy.    *)
(***************************************************************************)
arrayBoard(grid, owner) == [squares |-> grid, rows |-> grid, arr |-> TRUE, own |-> owner]

\* a copy that hands back the original object
copyBoard_shared(board) == board

\* { ...board, squares: squares.map(rank => rank.map(piece => ...)) }
copyBoard(board) ==
  [squares |-> board.squares, rows |-> board.rows, arr |-> FALSE, own |-> "copy"]

\* squares[toRank][toFile] = squares[fromRank][fromFile]; squares[fromRank][fromFile] = null
movedSquares(squares, move) ==
  LET fromRank == rankOf(move.from)
      fromFile == fileOf(move.from)
      toRank == rankOf(move.to)
      toFile == fileOf(move.to)
      lifted == [squares EXCEPT ![toRank][toFile] = squares[fromRank][fromFile]]
  IN [lifted EXCEPT ![fromRank][fromFile] = Null]

makeMoveOnBoard(board, move) ==
  LET moved == movedSquares(board.squares, move)
  IN [board EXCEPT !.squares = moved,
                   !.rows = IF board.arr THEN moved ELSE board.rows]

\* board[rank]?.[file]
getPieceAt(board, square) == board.rows[rankOf(square)][fileOf(square)]

(***************************************************************************)
(* Position fingerprint: a sequence of one-character strings.              *)
(***************************************************************************)
digitChar(n) == <<"1", "2", "3", "4", "5", "6", "7", "8">>[n]
upperCase(t) ==
  CASE t = "p" -> "P" [] t = "n" -> "N" [] t = "b" -> "B"
    [] t = "r" -> "R" [] t = "q" -> "Q" [] t = "k" -> "K" [] OTHER -> t
pieceSymbol(piece) == IF piece.color = "w" THEN upperCase(piece.type) ELSE piece.type

RECURSIVE fenOfRank(_, _, _, _)
fenOfRank(squares, rank, file, emptyCount) ==
  IF file > 7
  THEN IF emptyCount > 0 THEN <<digitChar(emptyCount)>> ELSE << >>
  ELSE LET piece == squares[rank][file]
       IN IF piece = Null
          THEN fenOfRank(squares, rank, file + 1, emptyCount + 1)
          ELSE (IF emptyCount > 0 THEN <<digitChar(emptyCount)>> ELSE << >>)
               \o <<pieceSymbol(piece)>>
               \o fenOfRank(squares, rank, file + 1, 0)

\* for (let rank = 7; rank >= 0; rank--)
RECURSIVE fenFromRank(_, _)
fenFromRank(squares, rank) ==
  IF rank < 0 THEN << >>
  ELSE fenOfRank(squares, rank, 0, 0)
       \o (IF rank > 0 THEN <<"/">> ELSE << >>)
       \o fenFromRank(squares, rank - 1)

boardToFEN(squares) == fenFromRank(squares, 7)

(***************************************************************************)
(* Position evaluator.                                                     *)
(***************************************************************************)
RECURSIVE materialAndPosition(_, _, _)
materialAndPosition(squares, color, k) ==
  IF k > 63 THEN 0
  ELSE LET rank == k \div 8
           valueAt(file) ==
             LET piece == squares[rank][file]
                 totalValue == pieceValues(piece.type)
                               + getPositionValue(piece.type, piece.color, rank, file)
             IN IF file < k % 8 \/ piece = Null THEN 0
                ELSE IF piece.color = color THEN totalValue ELSE 0 - totalValue
       IN valueAt(0) + valueAt(1) + valueAt(2) + valueAt(3) + valueAt(4)
          + valueAt(5) + valueAt(6) + valueAt(7)
          + materialAndPosition(squares, color, 8 * (rank + 1))

\* Basic position evaluation for level 2
evaluatePositionBasic(squares, color) == materialAndPosition(squares, color, 0)

pieceCount(squares, color) ==
  Cardinality({k \in 0..63 : squares[k \div 8][k % 8].color = color})
pieceTypes(squares, color) ==
  {squares[k \div 8][k % 8].type : k \in {j \in 0..63 : squares[j \div 8][j % 8].color = color}}

evaluateKRKEndgame == 500
evaluateKRPKEndgame == 600
evaluateKQKEndgame == 900
evaluateKPKEndgame == 100

evaluateEndgame(squares) ==
  LET w == pieceCount(squares, "w")
      b == pieceCount(squares, "b")
      totalPieces == w + b
  IN IF totalPieces <= 6
     THEN IF w = 1 /\ b = 1 THEN evaluateKRKEndgame
          ELSE IF w = 2 /\ b = 1 /\ "p" \in pieceTypes(squares, "w")
               THEN evaluateKRPKEndgame
               ELSE 0
     ELSE 0

evaluateMobility(squares) ==
  (Len(getLegalMovesForBoard(squares, "w")) - Len(getLegalMovesForBoard(squares, "b"))) * 10

pawnsOnFile(squares, file, color) ==
  Cardinality({rank \in Idx : squares[rank][file] = Piece("p", color)})

isPawnIsolated(squares, rank, file, color) ==
  \A adjFile \in Max(0, file - 1)..Min(7, file + 1) :
     adjFile = file \/ pawnsOnFile(squares, adjFile, color) = 0

RECURSIVE doubledPawns(_, _)
doubledPawns(squares, file) ==
  IF file > 7 THEN 0
  ELSE LET whitePawns == pawnsOnFile(squares, file, "w")
           blackPawns == pawnsOnFile(squares, file, "b")
       IN (IF whitePawns > 1 THEN 0 - 30 * (whitePawns - 1) ELSE 0)
          + (IF blackPawns > 1 THEN 30 * (blackPawns - 1) ELSE 0)
          + doubledPawns(squares, file + 1)

RECURSIVE isolatedPawns(_, _)
isolatedPawns(squares, k) ==
  IF k > 63 THEN 0
  ELSE LET rank == k \div 8
           penaltyAt(file) ==
             LET piece == squares[rank][file]
             IN IF file >= k % 8 /\ piece.type = "p"
                   /\ isPawnIsolated(squares, rank, file, piece.color)
                THEN (IF piece.color = "w" THEN -20 ELSE 20)
                ELSE 0
       IN penaltyAt(0) + penaltyAt(1) + penaltyAt(2) + penaltyAt(3) + penaltyAt(4)
          + penaltyAt(5) + penaltyAt(6) + penaltyAt(7)
          + isolatedPawns(squares, 8 * (rank + 1))

evaluatePawnStructure(squares) == doubledPawns(squares, 0) + isolatedPawns(squares, 0)

\* centerDistance * 10 with centerDistance = |rank - 3.5| + |file - 3.5|
evaluateKingPosition(rank, file, color) ==
  LET centerDistance10 == Abs(10 * rank - 35) + Abs(10 * file - 35)
      edgePenalty == IF rank = 0 \/ rank = 7 \/ file = 0 \/ file = 7 THEN 20 ELSE 0
  IN 0 - (centerDistance10 + edgePenalty)

\* the last king of the colour in scan order, -1 when there is none
lastKing(squares, color) ==
  LET ks == {k \in 0..63 : squares[k \div 8][k % 8] = Piece("k", color)}
  IN IF ks = {} THEN -1 ELSE CHOOSE k \in ks : \A j \in ks : j <= k

evaluateKingSafety(squares) ==
  LET whiteKing == lastKing(squares, "w")
      blackKing == lastKing(squares, "b")
  IN (IF whiteKing >= 0
      THEN evaluateKingPosition(whiteKing \div 8, whiteKing % 8, "w") ELSE 0)
     - (IF blackKing >= 0
        THEN evaluateKingPosition(blackKing \div 8, blackKing % 8, "b") ELSE 0)

evaluatePositionAdvanced(squares) ==
  materialAndPosition(squares, "w", 0)
  + evaluateEndgame(squares)
  + evaluateMobility(squares)
  + evaluatePawnStructure(squares)
  + evaluateKingSafety(squares)

(***************************************************************************)
(* The search-internal attack check of tier 1.                             *)
(***************************************************************************)
canPieceAttackSquare(squares, fromRank, fromFile, toRank, toFile) ==
  LET piece == squares[fromRank][fromFile]
      toSquare == squareName(toRank, toFile)
      moves == generateBasicMoves(squares, fromRank, fromFile, piece)
  IN piece # Null /\ \E i \in 1..Len(moves) : moves[i].to = toSquare

\* the break leaves only the file loop: the king of the last rank that
\* holds one, at the first file of that rank
kingPosOf(squares, color) ==
  LET rs == {rank \in Idx : \E file \in Idx : squares[rank][file] = Piece("k", color)}
      rank == CHOOSE r \in rs : \A q \in rs : q <= r
      fs == {file \in Idx : squares[rank][file] = Piece("k", color)}
  IN IF rs = {} THEN <<-1, -1>>
     ELSE <<rank, CHOOSE f \in fs : \A g \in fs : f <= g>>

isKingInCheck(squares, color) ==
  LET kingPos == kingPosOf(squares, color)
      opponentColor == opponent(color)
  IN kingPos[1] >= 0
     /\ \E rank \in Idx, file \in Idx :
          /\ squares[rank][file] # Null
          /\ squares[rank][file].color = opponentColor
          /\ canPieceAttackSquare(squares, rank, file, kingPos[1], kingPos[2])

isMoveBlunder(squares, color) == isKingInCheck(squares, color)

(***************************************************************************)
(* Simulating a move on a copy.  simulate is copyBoard followed by         *)
(* makeMoveOnBoard; afterSimulation is the board the simulation started    *)
(* from as it is afterwards: untouched unless the copy shares its grid.    *)
(***************************************************************************)
simulate(board, move) == makeMoveOnBoard(copyBoard(board), move)

afterSimulation(board, move) ==
  IF simulate(board, move).own = "caller" /\ board.own = "caller"
  THEN [board EXCEPT !.squares = simulate(board, move).squares]
  ELSE board

(***************************************************************************)
(* Tier 1: safety-filtered random choice.                                  *)
(***************************************************************************)
\* moves.filter(...) with the board threaded through the simulations
RECURSIVE safeMovesFrom(_, _, _, _)
safeMovesFrom(moves, board, color, i) ==
  IF i > Len(moves) THEN [safe |-> << >>, board |-> board]
  ELSE LET boardCopy == simulate(board, moves[i])
           rest == safeMovesFrom(moves, afterSimulation(board, moves[i]), color, i + 1)
       IN [safe |-> (IF ~isMoveBlunder(boardCopy.squares, color)
                     THEN <<moves[i]>> ELSE << >>) \o rest.safe,
           board |-> rest.board]

\* an index drawn from 0..moves.length, one past the end included
chooseRandomMove_pastEnd(moves) ==
  {Undefined} \cup {moves[i] : i \in 1..Len(moves)}

\* moves[Math.floor(Math.random() * moves.length)]: any element, moves[0] of
\* an empty list is undefined
chooseRandomMove(moves) ==
  IF Len(moves) = 0 THEN {Undefined} ELSE {moves[i] : i \in 1..Len(moves)}

\* a tier 1 that draws from the whole list, safe or not
chooseSmartRandomMove_unfiltered(moves, board, color) ==
  LET f == safeMovesFrom(moves, board, color, 1)
  IN [choices |-> chooseRandomMove(moves), board |-> f.board]

chooseSmartRandomMove(moves, board, color) ==
  LET f == safeMovesFrom(moves, board, color, 1)
  IN [choices |-> IF Len(f.safe) > 0 THEN chooseRandomMove(f.safe)
                  ELSE chooseRandomMove(moves),
      board |-> f.board]

(***************************************************************************)
(* Tier 2: one-ply positional scoring.                                     *)
(***************************************************************************)
RECURSIVE positionalLoop(_, _, _, _, _, _)
positionalLoop(moves, board, color, i, bestMove, bestScore) ==
  IF i > Len(moves) THEN [move |-> bestMove, board |-> board]
  ELSE LET boardCopy == simulate(board, moves[i])
           score == evaluatePositionBasic(boardCopy.squares, color)
           after == afterSimulation(board, moves[i])
       IN IF score > bestScore
          THEN positionalLoop(moves, after, color, i + 1, moves[i], score)
          ELSE positionalLoop(moves, after, color, i + 1, bestMove, bestScore)

\* a tier 2 that never replaces its initial bestMove = moves[0]
choosePositionalMove_first(moves, board, color) ==
  [move |-> IF Len(moves) = 0 THEN Undefined ELSE moves[1], board |-> board]

choosePositionalMove(moves, board, color) ==
  positionalLoop(moves, board, color, 1,
                 IF Len(moves) = 0 THEN Undefined ELSE moves[1], 0 - Infinity)

(***************************************************************************)
(* Quiescence search: it reads no clock and writes no table.               *)
(***************************************************************************)
RECURSIVE capturesFrom(_, _, _)
capturesFrom(board, allMoves, i) ==
  IF i > Len(allMoves) THEN << >>
  ELSE (IF getPieceAt(board, allMoves[i].to) # Null THEN <<allMoves[i]>> ELSE << >>)
       \o capturesFrom(board, allMoves, i + 1)

getCaptureMoves(board, color) ==
  capturesFrom(board, getLegalMovesForBoard(board.squares, color), 1)

RECURSIVE quiescenceSearch(_, _, _, _, _)
RECURSIVE quiescenceLoop(_, _, _, _, _, _, _)
quiescenceLoop(board, captures, i, alpha, beta, depth, color) ==
  IF i > Len(captures) THEN alpha
  ELSE LET boardCopy == simulate(board, captures[i])
           score == 0 - quiescenceSearch(boardCopy, 0 - beta, 0 - alpha,
                                         depth + 1, opponent(color))
       IN IF score >= beta THEN beta
          ELSE quiescenceLoop(board, captures, i + 1,
                              IF score > alpha THEN score ELSE alpha,
                              beta, depth, color)

quiescenceSearch(board, alpha, beta, depth, color) ==
  IF depth > QuiescenceCeiling THEN evaluatePositionAdvanced(board.squares)
  ELSE LET standPat == evaluatePositionAdvanced(board.squares)
       IN IF standPat >= beta THEN beta
          ELSE quiescenceLoop(board, getCaptureMoves(board, color), 1,
                              IF alpha < standPat THEN standPat ELSE alpha,
                              beta, depth, color)

(***************************************************************************)
(* Transposition table: a Map in insertion order, as a sequence of         *)
(* entries carrying their key.                                             *)
(***************************************************************************)
ttIndex(table, fen) ==
  LET hits == {i \in 1..Len(table) : table[i].key = fen}
  IN IF hits = {} THEN 0 ELSE CHOOSE i \in hits : TRUE

ttHas(table, fen) == ttIndex(table, fen) # 0
ttGet(table, fen) == table[ttIndex(table, fen)]

\* Map.set: an existing key keeps its place, a new key goes last
mapSet(table, entry) ==
  IF ttHas(table, entry.key)
  THEN [table EXCEPT ![ttIndex(table, entry.key)] = entry]
  ELSE Append(table, entry)

\* an eviction that removes one entry in a hundred
evictOldEntries_onePercent(table) ==
  LET toRemove == Len(table) \div 100
  IN SubSeq(table, toRemove + 1, Len(table))

\* delete the first floor(size * 0.1) keys
evictOldEntries(table) ==
  LET toRemove == Len(table) \div 10
  IN SubSeq(table, toRemove + 1, Len(table))

\* a store that evicts instead of inserting when the table is full
storeTranspositionEntry_evictOnly(table, fen, score, depth, flag, bestMove) ==
  LET entry == [key |-> fen, score |-> score, depth |-> depth,
                flag |-> flag, bestMove |-> bestMove]
  IN IF Len(table) >= maxTableSize THEN evictOldEntries(table)
     ELSE mapSet(table, entry)

storeTranspositionEntry(table, fen, score, depth, flag, bestMove) ==
  LET entry == [key |-> fen, score |-> score, depth |-> depth,
                flag |-> flag, bestMove |-> bestMove]
  IN mapSet(IF Len(table) >= maxTableSize THEN evictOldEntries(table) ELSE table,
            entry)

(***************************************************************************)
(* Move ordering and its cache (keyed by the fingerprint alone).           *)
(***************************************************************************)
getMoveScore(move, board, color) ==
  LET targetPiece == getPieceAt(board, move.to)
      fromPiece == getPieceAt(board, move.from)
  IN (IF targetPiece # Null THEN pieceValues(targetPiece.type) * 10 ELSE 0)
     + (IF fromPiece # Null THEN pieceValues(fromPiece.type) ELSE 0)
     + (IF fromPiece.type = "p" /\ fileOf(move.to) \in {3, 4} THEN 50 ELSE 0)

\* stable insertion of an item into a list sorted by descending score
RECURSIVE insertByScore(_, _)
insertByScore(sorted, item) ==
  IF sorted = << >> THEN <<item>>
  ELSE IF item.score > sorted[1].score THEN <<item>> \o sorted
       ELSE <<sorted[1]>> \o insertByScore(Tail(sorted), item)

\* Array.prototype.sort((a, b) => b.score - a.score), which is stable
RECURSIVE sortByScore(_, _)
sortByScore(items, n) ==
  IF n = 0 THEN << >>
  ELSE insertByScore(sortByScore(items, n - 1), items[n])

storeOrderingCache(cache, fen, moves) ==
  LET evicted == IF Len(cache) >= maxOrderingCacheSize THEN Tail(cache) ELSE cache
  IN mapSet(evicted, [key |-> fen, moves |-> moves])

getOrderedMoves(cache, moves, board, color) ==
  LET fen == boardToFEN(board.squares)
  IN IF ttHas(cache, fen)
     THEN [moves |-> ttGet(cache, fen).moves, cache |-> cache]
     ELSE LET moveScores == [i \in 1..Len(moves) |->
                               [move |-> moves[i],
                                score |-> getMoveScore(moves[i], board, color)]]
              sorted == sortByScore(moveScores, Len(moveScores))
              orderedMoves == [i \in 1..Len(sorted) |-> sorted[i].move]
          IN [moves |-> orderedMoves,
              cache |-> storeOrderingCache(cache, fen, orderedMoves)]

(***************************************************************************)
(* Opening book: full position keys and moves in coordinate notation.      *)
(***************************************************************************)
\* the square whose name is the letter with char code 97 + c and the digit d
S(c, d) == [c |-> c, d |-> d]

openingBook ==
  << [key |-> <<"r", "n", "b", "q", "k", "b", "n", "r", "/", "p", "p", "p", "p", "p", "p", "p", "p", "/", "8", "/", "8", "/", "8", "/", "8", "/", "P", "P", "P", "P", "P", "P", "P", "P", "/", "R", "N", "B", "Q", "K", "B", "N", "R", " ", "w", " ", "K", "Q", "k", "q", " ", "-", " ", "0", " ", "1">>,
      moves |-> <<Mv(S(4, 2), S(4, 4)), Mv(S(3, 2), S(3, 4)), Mv(S(2, 2), S(2, 4)), Mv(S(6, 1), S(5, 3)), Mv(S(1, 1), S(2, 3))>>],
     [key |-> <<"r", "n", "b", "q", "k", "b", "n", "r", "/", "p", "p", "p", "p", "p", "p", "p", "p", "/", "8", "/", "8", "/", "4", "P", "3", "/", "8", "/", "P", "P", "P", "P", "1", "P", "P", "P", "/", "R", "N", "B", "Q", "K", "B", "N", "R", " ", "b", " ", "K", "Q", "k", "q", " ", "e", "3", " ", "0", " ", "1">>,
      moves |-> <<Mv(S(4, 7), S(4, 5)), Mv(S(2, 7), S(2, 5)), Mv(S(4, 7), S(4, 6)), Mv(S(3, 7), S(3, 5)), Mv(S(6, 8), S(5, 6))>>],
     [key |-> <<"r", "n", "b", "q", "k", "b", "n", "r", "/", "p", "p", "p", "p", "1", "p", "p", "p", "/", "8", "/", "4", "p", "3", "/", "4", "P", "3", "/", "8", "/", "P", "P", "P", "P", "1", "P", "P", "P", "/", "R", "N", "B", "Q", "K", "B", "N", "R", " ", "w", " ", "K", "Q", "k", "q", " ", "e", "6", " ", "0", " ", "2">>,
      moves |-> <<Mv(S(6, 1), S(5, 3)), Mv(S(1, 1), S(2, 3)), Mv(S(5, 1), S(2, 4)), Mv(S(3, 2), S(3, 4))>>],
     [key |-> <<"r", "n", "b", "q", "k", "b", "n", "r", "/", "p", "p", "p", "p", "1", "p", "p", "p", "/", "8", "/", "4", "p", "3", "/", "4", "P", "3", "/", "5", "N", "2", "/", "P", "P", "P", "P", "1", "P", "P", "P", "/", "R", "N", "B", "Q", "K", "B", "1", "R", " ", "b", " ", "K", "Q", "k", "q", " ", "-", " ", "1", " ", "2">>,
      moves |-> <<Mv(S(1, 8), S(2, 6)), Mv(S(6, 8), S(5, 6)), Mv(S(3, 7), S(3, 6)), Mv(S(5, 8), S(2, 5))>>] >>

bookIndex(fen) ==
  LET hits == {i \in 1..Len(openingBook) : openingBook[i].key = fen}
  IN IF hits = {} THEN 0 ELSE CHOOSE i \in hits : TRUE

\* the first book move that the move generator also produces
RECURSIVE firstBookMove(_, _, _)
firstBookMove(bookMoves, generated, i) ==
  IF i > Len(bookMoves) THEN Undefined
  ELSE IF \E j \in 1..Len(generated) : generated[j] = bookMoves[i]
       THEN bookMoves[i]
       ELSE firstBookMove(bookMoves, generated, i + 1)

getOpeningBookMove(squares, turn) ==
  LET fen == boardToFEN(squares)
  IN IF bookIndex(fen) # 0
     THEN firstBookMove(openingBook[bookIndex(fen)].moves,
                        getLegalMovesForBoard(squares, turn), 1)
     ELSE Undefined

(***************************************************************************)
(* Positions the calls are made on, with the legal moves the rules engine  *)
(* (chess.js behind ChessEngine.getAllLegalMoves) reports for them.        *)
(***************************************************************************)
\* pieces given as <<file, digit, type, colour>>
gridOf(ps) ==
  [rank \in Idx |-> [file \in Idx |->
     IF \E i \in 1..Len(ps) : ps[i][1] = file /\ 8 - ps[i][2] = rank
     THEN LET i == CHOOSE j \in 1..Len(ps) : ps[j][1] = file /\ 8 - ps[j][2] = rank
          IN Piece(ps[i][3], ps[i][4])
     ELSE Null]]

BackRank == <<"r", "n", "b", "q", "k", "b", "n", "r">>
StartSquares ==
  [rank \in Idx |-> [file \in Idx |->
     CASE rank = 0 -> Piece(BackRank[file + 1], "b")
       [] rank = 1 -> Piece("p", "b")
       [] rank = 6 -> Piece("p", "w")
       [] rank = 7 -> Piece(BackRank[file + 1], "w")
       [] OTHER -> Null]]

StartLegal ==
  <<Mv(S(0, 2), S(0, 3)), Mv(S(0, 2), S(0, 4)), Mv(S(1, 2), S(1, 3)), Mv(S(1, 2), S(1, 4)),
    Mv(S(2, 2), S(2, 3)), Mv(S(2, 2), S(2, 4)), Mv(S(3, 2), S(3, 3)), Mv(S(3, 2), S(3, 4)),
    Mv(S(4, 2), S(4, 3)), Mv(S(4, 2), S(4, 4)), Mv(S(5, 2), S(5, 3)), Mv(S(5, 2), S(5, 4)),
    Mv(S(6, 2), S(6, 3)), Mv(S(6, 2), S(6, 4)), Mv(S(7, 2), S(7, 3)), Mv(S(7, 2), S(7, 4)),
    Mv(S(1, 1), S(0, 3)), Mv(S(1, 1), S(2, 3)), Mv(S(6, 1), S(5, 3)), Mv(S(6, 1), S(7, 3))>>

\* white king e1 against king e8 and pawn e3: d2 and f2 are covered by the pawn
PawnGuardSquares ==
  gridOf(<< <<4, 1, "k", "w">>, <<4, 8, "k", "b">>, <<4, 3, "p", "b">> >>)
PawnGuardLegal == <<Mv(S(4, 1), S(3, 1)), Mv(S(4, 1), S(5, 1)), Mv(S(4, 1), S(4, 2))>>

\* every white piece is blocked for the move generator; the rules allow
\* the four pawn captures
LockedSquares ==
  gridOf(<< <<7, 1, "k", "w">>, <<6, 1, "b", "w">>, <<5, 2, "p", "w">>,
            <<6, 2, "p", "w">>, <<7, 2, "p", "w">>, <<5, 3, "p", "b">>,
            <<6, 3, "p", "b">>, <<7, 3, "p", "b">>, <<0, 8, "k", "b">> >>)
LockedLegal == <<Mv(S(5, 2), S(6, 3)), Mv(S(6, 2), S(5, 3)),
                 Mv(S(6, 2), S(7, 3)), Mv(S(7, 2), S(6, 3))>>

\* both kings boxed in: white can push the g- or the h-pawn, black the a-pawn
FortressSquares ==
  gridOf(<< <<7, 1, "k", "w">>, <<6, 1, "b", "w">>, <<5, 2, "p", "w">>,
            <<6, 2, "p", "w">>, <<7, 2, "p", "w">>, <<5, 3, "p", "b">>,
            <<1, 6, "p", "w">>, <<2, 6, "p", "w">>,
            <<0, 8, "k", "b">>, <<1, 8, "b", "b">>, <<0, 7, "p", "b">>,
            <<1, 7, "p", "b">>, <<2, 7, "p", "b">> >>)
FortressLegal == <<Mv(S(1, 6), S(0, 7)), Mv(S(1, 6), S(2, 7)), Mv(S(2, 6), S(1, 7)),
                   Mv(S(6, 2), S(5, 3)), Mv(S(6, 2), S(6, 3)), Mv(S(6, 2), S(6, 4)),
                   Mv(S(7, 2), S(7, 3)), Mv(S(7, 2), S(7, 4))>>

\* white to move is stalemated: a2, b1 and b2 are covered by the queen
StalemateSquares ==
  gridOf(<< <<0, 1, "k", "w">>, <<1, 3, "q", "b">>, <<7, 8, "k", "b">> >>)
StalemateLegal == << >>

\* white to move is stalemated again: a2 and b1 are covered by the knight,
\* b2 by the pawn only
KnightNetSquares ==
  gridOf(<< <<0, 1, "k", "w">>, <<2, 3, "n", "b">>, <<0, 3, "p", "b">>,
            <<7, 8, "k", "b">> >>)
KnightNetLegal == << >>

\* both kings boxed in and every pawn blocked but the white h-pawn: after
\* h2h3 neither side has a move the generator finds
SealedSquares ==
  gridOf(<< <<7, 1, "k", "w">>, <<6, 1, "b", "w">>, <<5, 2, "p", "w">>,
            <<6, 2, "p", "w">>, <<7, 2, "p", "w">>, <<5, 3, "p", "b">>,
            <<6, 3, "p", "b">>, <<7, 4, "p", "b">>,
            <<0, 6, "p", "w">>, <<1, 6, "p", "w">>, <<2, 6, "p", "w">>,
            <<0, 8, "k", "b">>, <<1, 8, "b", "b">>, <<0, 7, "p", "b">>,
            <<1, 7, "p", "b">>, <<2, 7, "p", "b">> >>)
SealedLegal == <<Mv(S(0, 6), S(1, 7)), Mv(S(1, 6), S(0, 7)), Mv(S(1, 6), S(2, 7)),
                 Mv(S(2, 6), S(1, 7)), Mv(S(5, 2), S(6, 3)), Mv(S(6, 2), S(5, 3)),
                 Mv(S(7, 2), S(7, 3)), Mv(S(7, 2), S(6, 3))>>

\* the sealed position with a free white pawn on d4 facing a black pawn on
\* d6; the search ends a depth here with a best score above the winning score
LastPushSquares ==
  gridOf(<< <<7, 1, "k", "w">>, <<6, 1, "b", "w">>, <<5, 2, "p", "w">>,
            <<6, 2, "p", "w">>, <<7, 2, "p", "w">>, <<5, 3, "p", "b">>,
            <<6, 3, "p", "b">>, <<7, 3, "p", "b">>,
            <<3, 4, "p", "w">>, <<3, 6, "p", "b">>,
            <<1, 6, "p", "w">>, <<2, 6, "p", "w">>,
            <<0, 8, "k", "b">>, <<1, 8, "b", "b">>, <<0, 7, "p", "b">>,
            <<1, 7, "p", "b">>, <<2, 7, "p", "b">> >>)
LastPushLegal == <<Mv(S(1, 6), S(0, 7)), Mv(S(1, 6), S(2, 7)), Mv(S(2, 6), S(1, 7)),
                   Mv(S(3, 4), S(3, 5)), Mv(S(5, 2), S(6, 3)), Mv(S(6, 2), S(5, 3)),
                   Mv(S(6, 2), S(7, 3)), Mv(S(7, 2), S(6, 3))>>

\* black to move: king e8 against king e1 and pawn e6, d7 and f7 are covered
\* by the pawn
BlackGuardSquares ==
  gridOf(<< <<4, 8, "k", "b">>, <<4, 1, "k", "w">>, <<4, 6, "p", "w">> >>)
BlackGuardLegal == <<Mv(S(4, 8), S(3, 8)), Mv(S(4, 8), S(5, 8)), Mv(S(4, 8), S(4, 7))>>

Positions ==
  { [squares |-> StartSquares, turn |-> "w", legal |-> StartLegal],
    [squares |-> StalemateSquares, turn |-> "w", legal |-> StalemateLegal],
    [squares |-> KnightNetSquares, turn |-> "w", legal |-> KnightNetLegal],
    [squares |-> PawnGuardSquares, turn |-> "w", legal |-> PawnGuardLegal],
    [squares |-> BlackGuardSquares, turn |-> "b", legal |-> BlackGuardLegal],
    [squares |-> SealedSquares, turn |-> "w", legal |-> SealedLegal],
    [squares |-> LastPushSquares, turn |-> "w", legal |-> LastPushLegal],
    [squares |-> LockedSquares, turn |-> "w", legal |-> LockedLegal],
    [squares |-> FortressSquares, turn |-> "w", legal |-> FortressLegal] }

\* the legal-move lists a caller passes: the rules engine's list, or none
MoveLists(pos) == {pos.legal, << >>}

\* the levels the calls run at: below the range (clamped to tier 1), tier 2
\* and the first search tier
LevelArgs == {0, 2, 3}

(***************************************************************************)
(* State.                                                                  *)
(***************************************************************************)
VARIABLES
  level,               \* SmartChessAI.level
  transpositionTable,  \* SmartChessAI.transpositionTable
  moveOrderingCache,   \* SmartChessAI.moveOrderingCache
  nodesEvaluated,      \* SmartChessAI.nodesEvaluated
  timeUp,              \* Date.now() - searchStartTime > maxSearchTime
  pc,                  \* position of the call in progress, "idle" when none
  args,                \* the arguments of the current (or last) call
  callerBoard,         \* the caller's board object as it is now
  callerMoves,         \* the caller's legal-move list as it is now
  drv,                 \* locals of the iterative-deepening driver
  stack,               \* iterativeMinimax frames, innermost last
  ret,                 \* << >> or <<score>> returned by the frame just left
  result,              \* the value returned by the last call
  outcome,             \* "none", "returned" or "threw" for the last call
  hist,                \* history of the call: what the deadline cut short
  calls,               \* number of calls made so far
  lastStore,           \* the latest direct store into the table, with the table before it
  observed,            \* the latest direct application of a pure operation
  server               \* ChessMCPServer: its engine, its gameHistory, its last tool call

vars == <<level, transpositionTable, moveOrderingCache, nodesEvaluated, timeUp,
          pc, args, callerBoard, callerMoves, drv, stack, ret, result, outcome,
          hist, calls, lastStore, observed, server>>

NoArgs == [api |-> "none", squares |-> StartSquares, moves |-> << >>,
           color |-> "w", level |-> 0, legal |-> << >>]
NoDrv == [moves |-> << >>, maxDepth |-> 0, depth |-> 0, idx |-> 0,
          scores |-> << >>, bestMove |-> Undefined, bestScore |-> 0 - Infinity]
NoHist == [aborted |-> FALSE, completedBest |-> Undefined, depthsDone |-> 0,
           expired |-> FALSE, setArg |-> << >>]

NoStore == [valid |-> FALSE, key |-> << >>, score |-> 0, depth |-> 0,
            flag |-> "exact", bestMove |-> Undefined, before |-> << >>, n |-> 0]

NoObservation == [op |-> "none", in |-> << >>, out |-> << >>]

\* no tool call has been handled yet
NoCall == [tool |-> "none", failed |-> FALSE, position |-> << >>,
           gameHistory |-> << >>]

\* this.chessEngine = new ChessEngine(); gameHistory: ChessGame[] = []
NewServer == [position |-> << >>, gameHistory |-> << >>, calls |-> 0,
              last |-> NoCall]

\* the ChessBoard object a caller owns
callerObject(squares) ==
  [squares |-> squares, rows |-> squares, arr |-> FALSE, own |-> "caller"]

ConstructorLevels == {1}

Init ==
  /\ level \in ConstructorLevels
  /\ transpositionTable = << >>
  /\ moveOrderingCache = << >>
  /\ nodesEvaluated = 0
  /\ timeUp = FALSE
  /\ pc = "idle"
  /\ args = NoArgs
  /\ callerBoard = callerObject(StartSquares)
  /\ callerMoves = << >>
  /\ drv = NoDrv
  /\ stack = << >>
  /\ ret = << >>
  /\ result = Undefined
  /\ outcome = "none"
  /\ hist = NoHist
  /\ calls = 0
  /\ lastStore = NoStore
  /\ observed = NoObservation
  /\ server = NewServer

(***************************************************************************)
(* Entry points.  Tiers 1 and 2 run to their return inside the call        *)
(* action; tiers 3 and above hand over to the driver.                      *)
(***************************************************************************)
\* resetSearchStats and the bookkeeping common to both entry points
beginCall(api, squares, moves, color, lv, legal) ==
  /\ pc = "idle"
  /\ calls < MaxCalls
  /\ calls' = calls + 1
  /\ nodesEvaluated' = 0
  /\ timeUp' = FALSE
  /\ args' = [api |-> api, squares |-> squares, moves |-> moves,
              color |-> color, level |-> lv, legal |-> legal]
  /\ callerMoves' = moves
  /\ stack' = << >>
  /\ ret' = << >>
  /\ hist' = [NoHist EXCEPT !.completedBest =
                              IF Len(moves) = 0 THEN Undefined ELSE moves[1]]
  /\ UNCHANGED <<level, transpositionTable, moveOrderingCache, lastStore, observed, server>>

returnNow(move, board) ==
  /\ result' = move
  /\ outcome' = "returned"
  /\ callerBoard' = board
  /\ pc' = "idle"
  /\ drv' = NoDrv

\* a driver that allows one depth more
startDriver_deeper(moves, board, lv) ==
  /\ drv' = [moves |-> moves, maxDepth |-> Min(lv + 3, 8), depth |-> 1,
             idx |-> 0, scores |-> << >>, bestMove |-> moves[1],
             bestScore |-> 0 - Infinity]
  /\ callerBoard' = board
  /\ pc' = "depth"
  /\ result' = Undefined
  /\ outcome' = "none"

startDriver(moves, board, lv) ==
  /\ drv' = [moves |-> moves, maxDepth |-> Min(lv + 2, 8), depth |-> 1,
             idx |-> 0, scores |-> << >>, bestMove |-> moves[1],
             bestScore |-> 0 - Infinity]
  /\ callerBoard' = board
  /\ pc' = "depth"
  /\ result' = Undefined
  /\ outcome' = "none"

\* a routing that raises "No legal moves available" on an empty list
route_throwOnEmpty(moves, board, color, lv, bookMove) ==
  IF Len(moves) = 0
  THEN /\ result' = Undefined
       /\ outcome' = "threw"
       /\ callerBoard' = board
       /\ pc' = "idle"
       /\ drv' = NoDrv
  ELSE IF lv = 1
  THEN LET r == chooseSmartRandomMove(moves, board, color)
       IN \E m \in r.choices : returnNow(m, r.board)
  ELSE IF lv = 2
       THEN LET r == choosePositionalMove(moves, board, color)
            IN returnNow(r.move, r.board)
       ELSE IF bookMove # Undefined THEN returnNow(bookMove, board)
            ELSE startDriver(moves, board, lv)

\* the tier routing shared by chooseMove and chooseMoveFromMoves
route(moves, board, color, lv, bookMove) ==
  IF lv = 1
  THEN LET r == chooseSmartRandomMove(moves, board, color)
       IN \E m \in r.choices : returnNow(m, r.board)
  ELSE IF lv = 2
       THEN LET r == choosePositionalMove(moves, board, color)
            IN returnNow(r.move, r.board)
       ELSE IF Len(moves) = 0 THEN returnNow(Undefined, board)
            ELSE IF bookMove # Undefined THEN returnNow(bookMove, board)
                 ELSE startDriver(moves, board, lv)

\* SmartChessAI.chooseMove(board, level), called as the command-line game
\* calls it: this.smartAI.chooseMove(board, this.smartAI.getLevel())
ChooseMove(pos) ==
  LET moves == getLegalMovesForBoard(pos.squares, pos.turn)
  IN /\ beginCall("chooseMove", pos.squares, moves, pos.turn, level, pos.legal)
     /\ route(moves, callerObject(pos.squares), pos.turn, level,
              IF level \in {1, 2} THEN Undefined
              ELSE getOpeningBookMove(pos.squares, pos.turn))

\* ChessAI.chooseMove(moves, board, color) -> SmartChessAI.chooseMoveFromMoves
ChooseMoveFromMoves(moves, pos) ==
  /\ beginCall("chooseMoveFromMoves", pos.squares, moves, pos.turn, level, pos.legal)
  /\ route(moves, callerObject(pos.squares), pos.turn, level, Undefined)

\* a setter that clamps from below only
SetLevel_noCeiling(n) ==
  /\ pc = "idle"
  /\ level' = Max(1, n)
  /\ hist' = [hist EXCEPT !.setArg = <<n>>]
  /\ UNCHANGED <<transpositionTable, moveOrderingCache, nodesEvaluated, timeUp,
                 pc, args, callerBoard, callerMoves, drv, stack, ret, result,
                 outcome, calls, lastStore, observed, server>>

\* SmartChessAI.setLevel / ChessAI.setLevel
SetLevel(n) ==
  /\ pc = "idle"
  /\ level' = Max(1, Min(5, n))
  /\ hist' = [hist EXCEPT !.setArg = <<n>>]
  /\ UNCHANGED <<transpositionTable, moveOrderingCache, nodesEvaluated, timeUp,
                 pc, args, callerBoard, callerMoves, drv, stack, ret, result,
                 outcome, calls, lastStore, observed, server>>

\* SmartChessAI.getLevel / ChessAI.getLevel
getLevel == level

(***************************************************************************)
(* The clock: the deadline passes at some moment of the call.              *)
(***************************************************************************)
\* a deadline test that never fires
isTimeUp_never == FALSE

\* Date.now() - this.searchStartTime > this.maxSearchTime
isTimeUp == timeUp

Tick ==
  /\ pc # "idle"
  /\ ~timeUp
  /\ timeUp' = TRUE
  /\ hist' = [hist EXCEPT !.expired = TRUE]
  /\ UNCHANGED <<level, transpositionTable, moveOrderingCache, nodesEvaluated,
                 pc, args, callerBoard, callerMoves, drv, stack, ret, result,
                 outcome, calls, lastStore, observed, server>>

(***************************************************************************)
(* Iterative-deepening driver (chooseAdvancedMove and                      *)
(* chooseAdvancedMoveFromMoves run the same loop).                         *)
(***************************************************************************)
frame(board, depth, alpha, beta, isMaximizing) ==
  [fpc |-> "enter", board |-> board, depth |-> depth, alpha |-> alpha,
   beta |-> beta, isMaximizing |-> isMaximizing, fen |-> << >>,
   orderedMoves |-> << >>, i |-> 0, bestScore |-> 0, bestMove |-> Undefined,
   flag |-> "exact"]

\* for (let depth = 1; depth <= maxDepth; depth++) { if (this.isTimeUp()) break;
DepthLoop ==
  /\ pc = "depth"
  /\ IF drv.depth > drv.maxDepth \/ isTimeUp
     THEN /\ returnNow(drv.bestMove, callerBoard)
          /\ UNCHANGED hist
     ELSE /\ pc' = "map"
          /\ drv' = [drv EXCEPT !.idx = 1, !.scores = << >>]
          /\ hist' = [hist EXCEPT !.aborted = FALSE]
          /\ UNCHANGED <<callerBoard, result, outcome>>
  /\ UNCHANGED <<level, transpositionTable, moveOrderingCache, nodesEvaluated,
                 timeUp, args, callerMoves, stack, ret, calls, lastStore, observed, server>>

\* moves.map((move) => { copyBoard; makeMoveOnBoard; iterativeMinimax(...)
MapMove ==
  /\ pc = "map"
  /\ drv.idx <= Len(drv.moves)
  /\ LET move == drv.moves[drv.idx]
         boardCopy == simulate(callerBoard, move)
     IN /\ stack' = <<frame(arrayBoard(boardCopy.squares, boardCopy.own),
                            drv.depth - 1, 0 - Infinity, Infinity, FALSE)>>
        /\ callerBoard' = afterSimulation(callerBoard, move)
  /\ pc' = "search"
  /\ UNCHANGED <<level, transpositionTable, moveOrderingCache, nodesEvaluated,
                 timeUp, args, callerMoves, drv, ret, result, outcome, hist,
                 calls, lastStore, observed, server>>

\* const score = -this.iterativeMinimax(...); return { move, score };
MapReturn ==
  /\ pc = "search"
  /\ stack = << >>
  /\ ret # << >>
  /\ drv' = [drv EXCEPT !.scores = Append(@, [move |-> drv.moves[drv.idx],
                                               score |-> 0 - ret[1]]),
                        !.idx = @ + 1]
  /\ ret' = << >>
  /\ pc' = "map"
  /\ UNCHANGED <<level, transpositionTable, moveOrderingCache, nodesEvaluated,
                 timeUp, args, callerBoard, callerMoves, stack, result, outcome,
                 hist, calls, lastStore, observed, server>>

\* moveScores.sort(...); bestMove = moveScores[0].move; if (bestScore > 9000) break;
MapDone ==
  /\ pc = "map"
  /\ drv.idx > Len(drv.moves)
  /\ LET sorted == sortByScore(drv.scores, Len(drv.scores))
         bestMove == sorted[1].move
         bestScore == sorted[1].score
     IN /\ hist' = [hist EXCEPT
                      !.completedBest = IF hist.aborted THEN @ ELSE bestMove,
                      !.depthsDone = IF hist.aborted THEN @ ELSE drv.depth]
        /\ IF bestScore > WinningScore
           THEN returnNow(bestMove, callerBoard)
           ELSE /\ drv' = [drv EXCEPT !.bestMove = bestMove,
                                      !.bestScore = bestScore,
                                      !.depth = @ + 1]
                /\ pc' = "depth"
                /\ UNCHANGED <<callerBoard, result, outcome>>
  /\ UNCHANGED <<level, transpositionTable, moveOrderingCache, nodesEvaluated,
                 timeUp, args, callerMoves, stack, ret, calls, lastStore, observed, server>>

(***************************************************************************)
(* iterativeMinimax, one frame per invocation.                             *)
(***************************************************************************)
top == stack[Len(stack)]
pop == SubSeq(stack, 1, Len(stack) - 1)
sideOf(isMaximizing) == IF isMaximizing THEN "w" ELSE "b"

\* a probe that trusts an entry of any depth
probe_anyDepth(table, fen, depth, alpha, beta) ==
  IF ttHas(table, fen)
  THEN LET ttEntry == ttGet(table, fen)
       IN IF ttEntry.flag = "exact" THEN <<ttEntry.score>>
          ELSE IF ttEntry.flag = "alpha" /\ ttEntry.score <= alpha THEN <<alpha>>
          ELSE IF ttEntry.flag = "beta" /\ ttEntry.score >= beta THEN <<beta>>
          ELSE << >>
  ELSE << >>

\* the transposition probe: <<score>> when it answers the node, << >> otherwise
probe(table, fen, depth, alpha, beta) ==
  IF ttHas(table, fen) /\ ttGet(table, fen).depth >= depth
  THEN LET ttEntry == ttGet(table, fen)
       IN IF ttEntry.flag = "exact" THEN <<ttEntry.score>>
          ELSE IF ttEntry.flag = "alpha" /\ ttEntry.score <= alpha THEN <<alpha>>
          ELSE IF ttEntry.flag = "beta" /\ ttEntry.score >= beta THEN <<beta>>
          ELSE << >>
  ELSE << >>

\* entry of iterativeMinimax up to the head of its move loop; the deadline
\* has passed by the time more than budget nodes were entered
EnterNodeWithin(budget) ==
  /\ pc = "search"
  /\ stack # << >>
  /\ top.fpc = "enter"
  /\ nodesEvaluated < budget \/ isTimeUp
  /\ nodesEvaluated' = nodesEvaluated + 1
  /\ LET fen == boardToFEN(top.board.squares)
         hit == probe(transpositionTable, fen, top.depth, top.alpha, top.beta)
         color == sideOf(top.isMaximizing)
     IN IF hit # << >>
        THEN /\ ret' = hit
             /\ stack' = pop
             /\ UNCHANGED moveOrderingCache
        ELSE IF top.depth = 0
        THEN /\ ret' = <<quiescenceSearch(top.board, top.alpha, top.beta, 0, color)>>
             /\ stack' = pop
             /\ UNCHANGED moveOrderingCache
        ELSE LET legalMoves == getLegalMovesForBoard(top.board.squares, color)
                 o == getOrderedMoves(moveOrderingCache, legalMoves, top.board, color)
             IN /\ moveOrderingCache' = o.cache
                /\ stack' = [stack EXCEPT ![Len(stack)] =
                     [top EXCEPT !.fpc = "loop", !.fen = fen,
                                 !.orderedMoves = o.moves, !.i = 1,
                                 !.bestScore = IF top.isMaximizing
                                               THEN 0 - Infinity ELSE Infinity]]
                /\ UNCHANGED ret
  /\ UNCHANGED <<level, transpositionTable, timeUp, pc, args, callerBoard,
                 callerMoves, drv, result, outcome, hist, calls, lastStore, observed, server>>

EnterNode == EnterNodeWithin(MaxNodes)

\* leaving the node: storeTranspositionEntry(fen, bestScore, depth, flag, bestMove)
leaveNode(f) ==
  /\ transpositionTable' =
       storeTranspositionEntry(transpositionTable, f.fen, f.bestScore, f.depth,
                               f.flag, f.bestMove)
  /\ ret' = <<f.bestScore>>
  /\ stack' = pop

\* head of the loop: for (const move of orderedMoves) { if (this.isTimeUp()) break;
LoopNode ==
  /\ pc = "search"
  /\ stack # << >>
  /\ top.fpc = "loop"
  /\ ret = << >>
  /\ IF top.i > Len(top.orderedMoves) \/ isTimeUp
     THEN /\ leaveNode(top)
          /\ hist' = [hist EXCEPT !.aborted =
                        @ \/ (top.i <= Len(top.orderedMoves))]
          /\ UNCHANGED callerBoard
     ELSE LET move == top.orderedMoves[top.i]
              boardCopy == simulate(top.board, move)
          IN /\ stack' = Append([stack EXCEPT ![Len(stack)] =
                                   [top EXCEPT !.fpc = "wait"]],
                                frame(boardCopy, top.depth - 1, top.alpha,
                                      top.beta, ~top.isMaximizing))
             /\ callerBoard' = IF boardCopy.own = "caller"
                               THEN [callerBoard EXCEPT !.squares = boardCopy.squares]
                               ELSE callerBoard
             /\ UNCHANGED <<transpositionTable, ret, hist>>
  /\ UNCHANGED <<level, moveOrderingCache, nodesEvaluated, timeUp, pc, args,
                 callerMoves, drv, result, outcome, calls, lastStore, observed, server>>

\* the body of the loop after the recursive call has returned
ChildReturn ==
  /\ pc = "search"
  /\ stack # << >>
  /\ top.fpc = "wait"
  /\ ret # << >>
  /\ LET score == ret[1]
         move == top.orderedMoves[top.i]
         better == IF top.isMaximizing THEN score > top.bestScore
                   ELSE score < top.bestScore
         alpha == IF top.isMaximizing THEN Max(top.alpha, score) ELSE top.alpha
         beta == IF top.isMaximizing THEN top.beta ELSE Min(top.beta, score)
         f == [top EXCEPT !.bestScore = IF better THEN score ELSE @,
                          !.bestMove = IF better THEN move ELSE @,
                          !.alpha = alpha, !.beta = beta]
     IN IF beta <= alpha
        THEN leaveNode([f EXCEPT !.flag = IF top.isMaximizing THEN "beta" ELSE "alpha"])
        ELSE /\ stack' = [stack EXCEPT ![Len(stack)] =
                            [f EXCEPT !.fpc = "loop", !.i = @ + 1]]
             /\ ret' = << >>
             /\ UNCHANGED transpositionTable
  /\ UNCHANGED <<level, moveOrderingCache, nodesEvaluated, timeUp, pc, args,
                 callerBoard, callerMoves, drv, result, outcome, hist, calls, lastStore, observed, server>>

(***************************************************************************)
(* Specification.                                                          *)
(***************************************************************************)
Step == DepthLoop \/ MapMove \/ MapReturn \/ MapDone
        \/ EnterNode \/ LoopNode \/ ChildReturn

Next ==
  \/ \E pos \in Positions : ChooseMove(pos)
  \/ \E pos \in Positions : \E moves \in MoveLists(pos) : ChooseMoveFromMoves(moves, pos)
  \/ \E n \in LevelArgs : SetLevel(n)
  \/ Tick
  \/ DepthLoop
  \/ MapMove
  \/ MapReturn
  \/ MapDone
  \/ EnterNode
  \/ LoopNode
  \/ ChildReturn

Spec == Init /\ [][Next]_vars

(***************************************************************************)
(* The transposition table driven directly: stores of any fingerprint and  *)
(* payload into a table that is empty, one short of full, or full.         *)
(***************************************************************************)
NumKeys == maxTableSize + 2

\* fingerprints of distinct positions: a lone white king on the k-th square
KeyBoard(k) == gridOf(<< <<(k - 1) % 8, 1 + ((k - 1) \div 8), "k", "w">> >>)
Key(k) == boardToFEN(KeyBoard(k))

Payloads ==
  { [score |-> 0, depth |-> 1, flag |-> "exact", bestMove |-> Undefined],
    [score |-> 50, depth |-> 2, flag |-> "alpha", bestMove |-> Mv(S(4, 2), S(4, 4))],
    [score |-> 0 - 30, depth |-> 3, flag |-> "beta", bestMove |-> Mv(S(6, 1), S(5, 3))] }

\* the table after the first n fingerprints have been stored in turn
RECURSIVE filled(_)
filled(n) ==
  IF n = 0 THEN << >>
  ELSE storeTranspositionEntry(filled(n - 1), Key(n), 0, 0, "exact", Undefined)

FillLevels == {0, maxTableSize - 1, maxTableSize}

InitTT ==
  /\ level \in ConstructorLevels
  /\ transpositionTable \in {filled(n) : n \in FillLevels}
  /\ moveOrderingCache = << >>
  /\ nodesEvaluated = 0
  /\ timeUp = FALSE
  /\ pc = "idle"
  /\ args = NoArgs
  /\ callerBoard = callerObject(StartSquares)
  /\ callerMoves = << >>
  /\ drv = NoDrv
  /\ stack = << >>
  /\ ret = << >>
  /\ result = Undefined
  /\ outcome = "none"
  /\ hist = NoHist
  /\ calls = 0
  /\ lastStore = NoStore
  /\ observed = NoObservation
  /\ server = NewServer

\* this.storeTranspositionEntry(fen, score, depth, flag, bestMove)
TTStore(k, p) ==
  /\ lastStore.n < MaxStores
  /\ transpositionTable' =
       storeTranspositionEntry(transpositionTable, Key(k), p.score, p.depth,
                               p.flag, p.bestMove)
  /\ lastStore' = [valid |-> TRUE, key |-> Key(k), score |-> p.score,
                   depth |-> p.depth, flag |-> p.flag, bestMove |-> p.bestMove,
                   before |-> transpositionTable, n |-> lastStore.n + 1]
  /\ UNCHANGED <<level, moveOrderingCache, nodesEvaluated, timeUp, pc, args,
                 callerBoard, callerMoves, drv, stack, ret, result, outcome,
                 hist, calls, observed, server>>

NextTT == \E k \in 1..NumKeys, p \in Payloads : TTStore(k, p)

SpecTT == InitTT /\ [][NextTT]_vars

\* a step of the call in progress can be taken: the call is somewhere in the
\* driver or the search, and not waiting for the clock at the node budget
StepEnabled ==
  /\ pc # "idle"
  /\ ~(pc = "search" /\ stack # << >> /\ top.fpc = "enter"
       /\ nodesEvaluated >= MaxNodes /\ ~isTimeUp)

\* weak fairness of Step, WF_vars(Step), with ENABLED <<Step>>_vars written
\* out as StepEnabled: the thread running the call is never suspended for good
StepFairness == []<>(~StepEnabled) \/ []<><<Step>>_vars

\* the search under a thread that keeps running the call in progress and a
\* clock that keeps advancing
SpecFair == Spec /\ WF_vars(Tick) /\ StepFairness

(***************************************************************************)
(* The evaluator applied directly to a board and to its colour mirror.     *)
(***************************************************************************)
\* ranks flipped, colours exchanged
mirrorBoard(squares) ==
  [rank \in Idx |-> [file \in Idx |->
     IF squares[7 - rank][file] = Null THEN Null
     ELSE Piece(squares[7 - rank][file].type, opponent(squares[7 - rank][file].color))]]

WhiteKingSquares == { <<4, 1>>, <<6, 1>>, <<2, 3>> }
BlackKingSquares == { <<4, 8>>, <<6, 8>>, <<2, 6>> }
OtherPieces ==
  { << >>,
    << <<3, 2, "p", "w">> >>,
    << <<3, 7, "p", "b">> >>,
    << <<3, 2, "p", "w">>, <<3, 7, "p", "b">> >>,
    << <<0, 4, "r", "w">> >>,
    << <<0, 5, "r", "b">> >>,
    << <<7, 5, "q", "w">> >> }

EvalBoards ==
  { gridOf(<< <<wk[1], wk[2], "k", "w">>, <<bk[1], bk[2], "k", "b">> >> \o others) :
      wk \in WhiteKingSquares, bk \in BlackKingSquares, others \in OtherPieces }
    \cup { pos.squares : pos \in Positions }

InitEval ==
  /\ level \in ConstructorLevels
  /\ transpositionTable = << >>
  /\ moveOrderingCache = << >>
  /\ nodesEvaluated = 0
  /\ timeUp = FALSE
  /\ pc = "idle"
  /\ args = NoArgs
  /\ callerBoard = callerObject(StartSquares)
  /\ callerMoves = << >>
  /\ drv = NoDrv
  /\ stack = << >>
  /\ ret = << >>
  /\ result = Undefined
  /\ outcome = "none"
  /\ hist = NoHist
  /\ calls = 0
  /\ lastStore = NoStore
  /\ observed \in { [op |-> "board", in |-> b, out |-> << >>] : b \in EvalBoards }
  /\ server = NewServer

\* this.evaluatePositionAdvanced(board), on the board and on its mirror
Evaluate ==
  /\ observed.op = "board"
  /\ observed' = [op |-> "evaluate", in |-> observed.in,
                  out |-> <<evaluatePositionAdvanced(observed.in),
                            evaluatePositionAdvanced(mirrorBoard(observed.in))>>]
  /\ UNCHANGED <<level, transpositionTable, moveOrderingCache, nodesEvaluated,
                 timeUp, pc, args, callerBoard, callerMoves, drv, stack, ret,
                 result, outcome, hist, calls, lastStore, server>>

NextEval == Evaluate

SpecEval == InitEval /\ [][NextEval]_vars

(***************************************************************************)
(* Searches that run to their end: the deadline does not pass while a call *)
(* is running, on an engine set to the first search tier.                  *)
(***************************************************************************)
\* more nodes than any of these searches enters
SearchNodes == 400

\* white to move; after a king move the black knight takes c6, the white
\* knight takes f3, and both knights can go back and forth between the two
\* squares they have stood on
ShuttleSquares ==
  gridOf(<< <<0, 1, "k", "w">>, <<6, 1, "n", "w">>, <<2, 6, "p", "w">>,
            <<7, 8, "k", "b">>, <<1, 8, "n", "b">>, <<5, 3, "p", "b">>,
            <<0, 7, "p", "b">>, <<1, 7, "p", "b">>, <<6, 7, "p", "b">>,
            <<7, 7, "p", "b">> >>)
ShuttleLegal == <<Mv(S(2, 6), S(2, 7)), Mv(S(2, 6), S(1, 7)), Mv(S(0, 1), S(0, 2)),
                  Mv(S(0, 1), S(1, 2)), Mv(S(0, 1), S(1, 1)), Mv(S(6, 1), S(4, 2)),
                  Mv(S(6, 1), S(5, 3)), Mv(S(6, 1), S(7, 3))>>

\* the positions whose full search tree is small enough to be enumerated
SearchPositions == {pos \in Positions : pos.squares # StartSquares}

NextSearch ==
  \/ \E pos \in SearchPositions : ChooseMove(pos)
  \/ SetLevel(3)
  \/ DepthLoop \/ MapMove \/ MapReturn \/ MapDone
  \/ EnterNodeWithin(SearchNodes) \/ LoopNode \/ ChildReturn

SpecSearch == Init /\ [][NextSearch]_vars

\* the same searches on the position with the long capture line
NextCapture ==
  \/ ChooseMove([squares |-> ShuttleSquares, turn |-> "w", legal |-> ShuttleLegal])
  \/ SetLevel(3)
  \/ DepthLoop \/ MapMove \/ MapReturn \/ MapDone
  \/ EnterNodeWithin(SearchNodes) \/ LoopNode \/ ChildReturn

SpecCapture == Init /\ [][NextCapture]_vars

(***************************************************************************)
(* The level alone: construction with any argument, then setLevel and      *)
(* getLevel in any order.                                                  *)
(***************************************************************************)
ConstructorArgs == (0 - 1)..7
SetLevelArgs == (0 - 1)..7

\* new SmartChessAI(level) / new ChessAI(level)
InitLevel ==
  /\ level \in ConstructorArgs
  /\ transpositionTable = << >>
  /\ moveOrderingCache = << >>
  /\ nodesEvaluated = 0
  /\ timeUp = FALSE
  /\ pc = "idle"
  /\ args = NoArgs
  /\ callerBoard = callerObject(StartSquares)
  /\ callerMoves = << >>
  /\ drv = NoDrv
  /\ stack = << >>
  /\ ret = << >>
  /\ result = Undefined
  /\ outcome = "none"
  /\ hist = NoHist
  /\ calls = 0
  /\ lastStore = NoStore
  /\ observed = NoObservation
  /\ server = NewServer

\* a call of getLevel(), with the value it returns
GetLevel ==
  /\ observed' = [op |-> "getLevel", in |-> hist.setArg, out |-> <<getLevel>>]
  /\ UNCHANGED <<level, transpositionTable, moveOrderingCache, nodesEvaluated,
                 timeUp, pc, args, callerBoard, callerMoves, drv, stack, ret,
                 result, outcome, hist, calls, lastStore, server>>

NextLevel ==
  \/ \E n \in SetLevelArgs : SetLevel(n)
  \/ GetLevel

SpecLevel == InitLevel /\ [][NextLevel]_vars

(***************************************************************************)
(* One node of iterativeMinimax leaving an entry and one node probing the  *)
(* table, for any pair of nodes.                                           *)
(***************************************************************************)
\* the black king of BlackGuardSquares on d8 (reached by e8d8 with black to
\* move next, and by e8e7, e7d8 with white to move next) or on f8, and the
\* starting position
NodeBoards ==
  { movedSquares(BlackGuardSquares, Mv(S(4, 8), S(3, 8))),
    movedSquares(BlackGuardSquares, Mv(S(4, 8), S(5, 8))),
    StartSquares }

StoredScores == {0 - 30, 0, 50}
StoredDepths == {1, 2}
Flags == {"exact", "alpha", "beta"}
ProbeDepths == 0..3
Windows ==
  { w \in {0 - Infinity, 0 - 30, 0, 50} \X {0 - 30, 0, 50, Infinity} : w[1] < w[2] }

InitProbe ==
  /\ level \in ConstructorLevels
  /\ transpositionTable = << >>
  /\ moveOrderingCache = << >>
  /\ nodesEvaluated = 0
  /\ timeUp = FALSE
  /\ pc = "idle"
  /\ args = NoArgs
  /\ callerBoard = callerObject(StartSquares)
  /\ callerMoves = << >>
  /\ drv = NoDrv
  /\ stack = << >>
  /\ ret = << >>
  /\ result = Undefined
  /\ outcome = "none"
  /\ hist = NoHist
  /\ calls = 0
  /\ lastStore = NoStore
  /\ observed = NoObservation
  /\ server = NewServer

\* the end of a node: this.storeTranspositionEntry(fen, bestScore, depth, flag, bestMove)
NodeLeave(board, isMaximizing, score, depth, flag) ==
  /\ observed.op = "none"
  /\ transpositionTable' =
       storeTranspositionEntry(transpositionTable, boardToFEN(board), score,
                               depth, flag, Undefined)
  /\ observed' = [op |-> "leave",
                  in |-> [board |-> board, isMaximizing |-> isMaximizing,
                          score |-> score, depth |-> depth, flag |-> flag],
                  out |-> << >>]
  /\ UNCHANGED <<level, moveOrderingCache, nodesEvaluated, timeUp, pc, args,
                 callerBoard, callerMoves, drv, stack, ret, result, outcome,
                 hist, calls, lastStore, server>>

\* the entry of a node up to the end of the probe
NodeEnter(board, isMaximizing, depth, alpha, beta) ==
  /\ observed.op \in {"none", "leave"}
  /\ nodesEvaluated' = nodesEvaluated + 1
  /\ observed' = [op |-> "enter",
                  in |-> [board |-> board, isMaximizing |-> isMaximizing,
                          depth |-> depth, alpha |-> alpha, beta |-> beta,
                          left |-> observed.in],
                  out |-> probe(transpositionTable, boardToFEN(board), depth,
                                alpha, beta)]
  /\ UNCHANGED <<level, transpositionTable, moveOrderingCache, timeUp, pc, args,
                 callerBoard, callerMoves, drv, stack, ret, result, outcome,
                 hist, calls, lastStore, server>>

NextProbe ==
  \/ \E board \in NodeBoards, isMaximizing \in BOOLEAN, score \in StoredScores,
        depth \in StoredDepths, flag \in Flags :
        NodeLeave(board, isMaximizing, score, depth, flag)
  \/ \E board \in NodeBoards, isMaximizing \in BOOLEAN, depth \in ProbeDepths,
        w \in Windows :
        NodeEnter(board, isMaximizing, depth, w[1], w[2])

SpecProbe == InitProbe /\ [][NextProbe]_vars

(***************************************************************************)
(* Properties.                                                             *)
(***************************************************************************)
ListOf(moves) == {moves[i] : i \in 1..Len(moves)}
BookMoves == {Mv(S(4, 2), S(4, 4)), Mv(S(3, 2), S(3, 4)), Mv(S(2, 2), S(2, 4)),
              Mv(S(6, 1), S(5, 3)), Mv(S(1, 1), S(2, 3))}

\* C1: chooseMoveFromMoves, given a non-empty list, returns an element of
\* that list at every tier; no move outside the list is returned.
C1_ResultFromSuppliedList ==
  (outcome = "returned" /\ args.api = "chooseMoveFromMoves" /\ Len(args.moves) >= 1)
    => result \in ListOf(args.moves)

C1_Witness ==
  /\ outcome = "returned"
  /\ args.api = "chooseMoveFromMoves"
  /\ args.level >= 3
  /\ hist.depthsDone >= 1
  /\ Len(args.moves) >= 2
  /\ result \in ListOf(args.moves)
  /\ result # args.moves[1]

\* C2: on a position with at least one legal move, chooseMove(board, level)
\* returns a move of the rules engine's legal-move list.
C2_ResultIsLegal ==
  (outcome = "returned" /\ args.api = "chooseMove" /\ Len(args.legal) >= 1)
    => result \in ListOf(args.legal)

\* C3: a call with an empty legal-move list fails with an error instead of
\* returning a value.
C3_EmptyListRaises ==
  (pc = "idle" /\ args.api = "chooseMoveFromMoves" /\ Len(args.moves) = 0)
    => outcome = "threw"

\* C4: chooseMove(board, level) never raises, also when the side to move
\* has no move.
C4_ChooseMoveNeverRaises ==
  args.api = "chooseMove" => outcome # "threw"

C4_Witness ==
  /\ outcome = "returned"
  /\ args.api = "chooseMove"
  /\ args.level >= 3
  /\ Len(args.moves) = 0
  /\ result = Undefined

\* C5: from the starting position with white to move, tiers 3 to 5 return
\* one of the opening-book moves e2e4, d2d4, c2c4, g1f3, b1c3.
C5_BookMoveFromStart ==
  (outcome = "returned" /\ args.api = "chooseMove" /\ args.squares = StartSquares
     /\ args.color = "w" /\ args.level >= 3)
    => result \in BookMoves

\* C6: when the deadline passes during the search, the move returned is the
\* best move of the last depth searched to completion (the first candidate
\* if none was); an aborted depth never replaces it.
C6_ReturnsLastCompletedDepth ==
  (outcome = "returned" /\ args.level >= 3 /\ hist.expired)
    => result = hist.completedBest

\* C7: every call that has started returns.
C7_CallReturns == (pc # "idle") ~> (pc = "idle")

C7_Witness ==
  /\ outcome = "returned"
  /\ args.level >= 3
  /\ hist.expired
  /\ hist.depthsDone >= 1
  /\ nodesEvaluated > MaxNodes

\* C8: after a call at any tier the caller's board and the caller's list
\* of legal moves are what they were when the call was made.
C8_CallerDataUnchanged ==
  outcome = "returned"
    => (callerBoard = callerObject(args.squares) /\ callerMoves = args.moves)

C8_Witness ==
  /\ outcome = "returned"
  /\ args.level >= 3
  /\ hist.depthsDone >= 2
  /\ callerBoard = callerObject(args.squares)
  /\ callerMoves = args.moves

\* C9: right after a store the table holds, under the stored fingerprint,
\* the stored score, depth and bound type, whatever it held before and also
\* when it was full before the store.
C9_StoreThenLookup ==
  lastStore.valid =>
    /\ ttHas(transpositionTable, lastStore.key)
    /\ ttGet(transpositionTable, lastStore.key).score = lastStore.score
    /\ ttGet(transpositionTable, lastStore.key).depth = lastStore.depth
    /\ ttGet(transpositionTable, lastStore.key).flag = lastStore.flag

C9_Witness ==
  /\ lastStore.valid
  /\ Len(lastStore.before) >= maxTableSize
  /\ ~ttHas(lastStore.before, lastStore.key)
  /\ ttHas(transpositionTable, lastStore.key)
  /\ ttGet(transpositionTable, lastStore.key).flag = lastStore.flag

\* C10: the table never holds more than maxTableSize entries.
C10_SizeWithinCapacity == Len(transpositionTable) <= maxTableSize

C10_Witness ==
  /\ lastStore.valid
  /\ Len(lastStore.before) = maxTableSize
  /\ ~ttHas(lastStore.before, lastStore.key)
  /\ Len(transpositionTable) = maxTableSize

\* C11: after setLevel(n), getLevel() is n clamped to [1,5]: 1 below 1,
\* 5 above 5, n otherwise.
C11_SetLevelClamps ==
  hist.setArg # << >> =>
    getLevel = (IF hist.setArg[1] < 1 THEN 1
                ELSE IF hist.setArg[1] > 5 THEN 5 ELSE hist.setArg[1])

C11_Witness ==
  /\ hist.setArg = <<6>>
  /\ observed.op = "getLevel"
  /\ observed.in = <<6>>
  /\ observed.out = <<5>>

\* the candidates of the last call that leave the mover's king un-attacked
\* according to the search-internal attack check
SafeCandidates ==
  {m \in ListOf(args.moves) :
     ~isKingInCheck(movedSquares(args.squares, m), args.color)}

\* C12: at tier 1, when some candidate leaves the mover's king un-attacked
\* the move returned is such a candidate; a move that leaves the king
\* attacked is returned only when no candidate is safe.
C12_TierOneReturnsSafeMove ==
  (outcome = "returned" /\ args.level = 1 /\ Len(args.moves) >= 1)
    => (IF SafeCandidates # {} THEN result \in SafeCandidates
        ELSE result \in ListOf(args.moves))

C12_Witness ==
  /\ outcome = "returned"
  /\ args.level = 1
  /\ SafeCandidates # {}
  /\ SafeCandidates # ListOf(args.moves)
  /\ result \in SafeCandidates

\* material plus placement, from the mover's side, of the position a
\* candidate of the last call leads to
BasicScoreAfter(m) ==
  evaluatePositionBasic(movedSquares(args.squares, m), args.color)

\* C13: at tier 2 no candidate leads to a position with a strictly higher
\* material-plus-placement score than the move returned.
C13_TierTwoReturnsMaximum ==
  (outcome = "returned" /\ args.level = 2 /\ Len(args.moves) >= 1)
    => /\ result \in ListOf(args.moves)
       /\ \A m \in ListOf(args.moves) : BasicScoreAfter(m) <= BasicScoreAfter(result)

C13_Witness ==
  /\ outcome = "returned"
  /\ args.level = 2
  /\ result \in ListOf(args.moves)
  /\ \E m \in ListOf(args.moves) : BasicScoreAfter(m) < BasicScoreAfter(result)
  /\ BasicScoreAfter(args.moves[1]) < BasicScoreAfter(result)

\* C14: the score of a position and the score of its colour mirror are
\* negations of each other, so a symmetric position scores 0.
C14_EvaluatorSignSymmetric ==
  observed.op = "evaluate" => observed.out[2] = 0 - observed.out[1]

\* invocations of iterativeMinimax already made by their caller whose
\* this.nodesEvaluated++ has not run yet
enteredUncounted == Cardinality({i \in 1..Len(stack) : stack[i].fpc = "enter"})

\* candidates of the running moves.map whose callback has not started
unmappedCandidates ==
  IF pc = "map" THEN Len(drv.moves) - drv.idx + 1
  ELSE IF pc = "search" THEN Len(drv.moves) - drv.idx
  ELSE 0

\* the value nodesEvaluated ends with if isTimeUp() is true from now on
nodesIfDeadlineNow == nodesEvaluated + enteredUncounted + unmappedCandidates

\* C15: for one position, tier and initial table, a larger time budget never
\* ends with fewer visited nodes than a smaller one.  The search is
\* deterministic up to the moment the deadline passes, so two budgets share
\* the run up to the earlier deadline: the count a call ends with when the
\* deadline passes now never decreases while the deadline has not passed,
\* and is the count the call does end with once it has passed.
C15_LaterDeadlineNeverFewerNodes ==
  [][calls' = calls =>
       IF timeUp THEN nodesIfDeadlineNow' = nodesIfDeadlineNow
       ELSE nodesIfDeadlineNow' >= nodesIfDeadlineNow]_vars

C15_Witness ==
  /\ outcome = "returned" /\ pc = "idle" /\ args.level >= 3
  /\ timeUp /\ hist.aborted
  /\ nodesEvaluated >= Len(args.moves) + 2
  /\ nodesIfDeadlineNow = nodesEvaluated

\* the score iterativeMinimax returned for a candidate of the finished moves.map
searchScore(entry) == 0 - entry.score

\* C16: at each searched depth the driver adopts the candidate whose search
\* score is best for the side to move, the highest when white is to move and
\* the lowest when black is to move.
C16_AdoptsBestForSideToMove ==
  (pc = "depth" /\ drv.scores # << >>) =>
    \A i \in 1..Len(drv.scores) :
      /\ drv.bestMove \in {drv.scores[j].move : j \in 1..Len(drv.scores)}
      /\ IF args.color = "w"
         THEN searchScore(drv.scores[i]) <= 0 - drv.bestScore
         ELSE searchScore(drv.scores[i]) >= 0 - drv.bestScore

\* the side whose moves the node at stack position i generates
sideToMoveAt(i) == sideOf(stack[i].isMaximizing)

\* C17: along every path of the search tree the side to move alternates at
\* each ply, starting with the opponent of the root mover at the position
\* reached by a top-level candidate, whichever colour the root mover has.
C17_SideAlternatesFromOpponent ==
  pc = "search" =>
    \A i \in 1..Len(stack) :
      sideToMoveAt(i) = IF i % 2 = 1 THEN opponent(args.color) ELSE args.color

\* C19: every entry stored with bound type exact holds a finite score of a
\* node whose children were all searched; a node cut short by the deadline,
\* or one without moves, leaves no exact entry with plus or minus infinity
\* for a later probe to return.
C19_ExactEntriesAreFinite ==
  \A i \in 1..Len(transpositionTable) :
    transpositionTable[i].flag = "exact" =>
      /\ transpositionTable[i].score < Infinity
      /\ transpositionTable[i].score > 0 - Infinity

\* C18: a table entry answers a node only if it was stored for the same
\* piece layout with the same side to move.
C18_EntryUsedForSameSide ==
  (observed.op = "enter" /\ observed.out # << >>) =>
    /\ observed.in.left.board = observed.in.board
    /\ observed.in.left.isMaximizing = observed.in.isMaximizing

\* the entry the table holds for the probing node's layout
probedEntry == ttGet(transpositionTable, boardToFEN(observed.in.board))

\* C20: a probe answers a node only if the stored entry's depth is at least
\* the requested depth and the entry is exact, or a lower bound with score
\* >= beta, or an upper bound with score <= alpha; otherwise the node is
\* searched again.
C20_ProbeAnswersOnlyWhenUsable ==
  (observed.op = "enter" /\ observed.out # << >>) =>
    /\ ttHas(transpositionTable, boardToFEN(observed.in.board))
    /\ probedEntry.depth >= observed.in.depth
    /\ \/ probedEntry.flag = "exact"
       \/ probedEntry.flag = "beta" /\ probedEntry.score >= observed.in.beta
       \/ probedEntry.flag = "alpha" /\ probedEntry.score <= observed.in.alpha

C20_Witness ==
  /\ observed.op = "enter" /\ observed.out = <<50>>
  /\ probedEntry.flag = "beta" /\ probedEntry.score = 50
  /\ probedEntry.depth = 2 /\ observed.in.depth = 2
  /\ observed.in.beta = 50

\* C21: once the deadline has passed no further child position is expanded:
\* no candidate of the driver and no child of a node is given a new
\* invocation of the search.
C21_NoExpansionAfterDeadline ==
  [][isTimeUp => Len(stack') <= Len(stack)]_vars

\* the highest score among the (move, score) pairs of a finished moves.map
topScore(scores) ==
  CHOOSE x \in {scores[i].score : i \in 1..Len(scores)} :
    \A i \in 1..Len(scores) : scores[i].score <= x

\* C22: the driver searches depths 1, 2, 3, ... in increasing order, starts
\* no depth greater than min(tier + 2, 8), and goes on to the next depth
\* exactly when the deadline has not passed and the best score of the depth
\* just finished does not exceed 9000.
C22_DepthsInOrderWithinCap ==
  [][/\ (pc = "idle" /\ pc' = "depth") => drv'.depth = 1
     /\ (pc = "depth" /\ pc' = "map") =>
          /\ drv.depth <= Min(args.level + 2, 8)
          /\ ~isTimeUp
          /\ drv'.depth = drv.depth
     /\ (pc = "depth" /\ pc' = "idle") =>
          (isTimeUp \/ drv.depth > Min(args.level + 2, 8))
     /\ (pc = "map" /\ pc' = "depth") =>
          /\ drv'.depth = drv.depth + 1
          /\ topScore(drv.scores) <= 9000
     /\ (pc = "map" /\ pc' = "idle") => topScore(drv.scores) > 9000
     /\ (pc \in {"map", "search"} /\ pc' \in {"map", "search"}) =>
          drv'.depth = drv.depth]_vars

C22_Witness ==
  /\ outcome = "returned" /\ pc = "idle" /\ ~timeUp
  /\ args.level = 3 /\ args.squares = SealedSquares
  /\ hist.depthsDone = 5 /\ nodesEvaluated = 5

\* minimax without window and without table over getLegalMovesForBoard,
\* with the capture search on the full window at depth 0
RECURSIVE plainMinimax(_, _, _)
plainMinimax(board, depth, isMaximizing) ==
  IF depth = 0
  THEN quiescenceSearch(board, 0 - Infinity, Infinity, 0, sideOf(isMaximizing))
  ELSE LET moves == getLegalMovesForBoard(board.squares, sideOf(isMaximizing))
           scores == {plainMinimax(simulate(board, moves[i]), depth - 1,
                                   ~isMaximizing) : i \in 1..Len(moves)}
       IN IF isMaximizing
          THEN CHOOSE x \in scores \cup {0 - Infinity} :
                 \A y \in scores : y <= x
          ELSE CHOOSE x \in scores \cup {Infinity} :
                 \A y \in scores : x <= y

\* the position the driver hands to the search for the current candidate
candidateBoard ==
  LET boardCopy == simulate(callerBoard, drv.moves[drv.idx])
  IN arrayBoard(boardCopy.squares, boardCopy.own)

\* C23: the score a full-window search of a candidate returns, the deadline
\* not having passed, is the plain minimax score of that position at that
\* depth over the same generator and leaf evaluation.
C23_SearchEqualsPlainMinimax ==
  (pc = "search" /\ stack = << >> /\ ret # << >> /\ ~isTimeUp) =>
    ret[1] = plainMinimax(candidateBoard, drv.depth - 1, FALSE)

\* the fingerprints the last store found among the first tenth (rounded down)
\* of a full table, in insertion order
earliestTenth ==
  IF Len(lastStore.before) >= maxTableSize
  THEN {lastStore.before[i].key : i \in 1..(Len(lastStore.before) \div 10)}
  ELSE {}

RECURSIVE quiescenceExplored(_, _, _, _, _)
RECURSIVE exploredFrom(_, _, _, _, _, _, _)
exploredFrom(board, captures, i, alpha, beta, depth, color) ==
  IF i > Len(captures) THEN {}
  ELSE LET boardCopy == simulate(board, captures[i])
           score == 0 - quiescenceSearch(boardCopy, 0 - beta, 0 - alpha,
                                         depth + 1, opponent(color))
       IN {[board |-> board, move |-> captures[i], color |-> color,
            depth |-> depth]}
          \cup quiescenceExplored(boardCopy, 0 - beta, 0 - alpha, depth + 1,
                                  opponent(color))
          \cup (IF score >= beta THEN {}
                ELSE exploredFrom(board, captures, i + 1,
                                  IF score > alpha THEN score ELSE alpha,
                                  beta, depth, color))

quiescenceExplored(board, alpha, beta, depth, color) ==
  IF depth > QuiescenceCeiling THEN {}
  ELSE LET standPat == evaluatePositionAdvanced(board.squares)
       IN IF standPat >= beta THEN {}
          ELSE exploredFrom(board, getCaptureMoves(board, color), 1,
                            IF alpha < standPat THEN standPat ELSE alpha,
                            beta, depth, color)

\* the node on top of the stack is about to hand over to the capture search
atHandoff ==
  /\ pc = "search"
  /\ stack # << >>
  /\ top.fpc = "enter"
  /\ top.depth = 0
  /\ probe(transpositionTable, boardToFEN(top.board.squares), top.depth,
           top.alpha, top.beta) = << >>

\* what the capture search started from the node on top of the stack simulates
handoffExplored ==
  quiescenceExplored(top.board, top.alpha, top.beta, 0, sideOf(top.isMaximizing))

\* the piece standing on a square of the node's current position
pieceOn(board, square) == board.squares[rankOf(square)][fileOf(square)]

\* C25: every move the capture search simulates lands on a square that holds
\* a piece of the other side in the position of the node that simulates it.
C25_ExploredMovesAreCaptures ==
  atHandoff =>
    \A e \in handoffExplored :
      pieceOn(e.board, e.move.to).color = opponent(e.color)

\* C26: a capture simulated by the capture search is at most the 10th ply
\* after the position handed over at depth 0.
C26_CapturesWithinCeiling ==
  atHandoff =>
    \A e \in handoffExplored : e.depth + 1 <= QuiescenceCeiling

\* the node on top of the stack is about to order its moves
atOrdering ==
  /\ pc = "search"
  /\ stack # << >>
  /\ top.fpc = "enter"
  /\ top.depth > 0
  /\ probe(transpositionTable, boardToFEN(top.board.squares), top.depth,
           top.alpha, top.beta) = << >>

\* the candidates generated for that node and the list the orderer returns
nodeCandidates ==
  getLegalMovesForBoard(top.board.squares, sideOf(top.isMaximizing))
nodeOrdered ==
  getOrderedMoves(moveOrderingCache, nodeCandidates, top.board,
                  sideOf(top.isMaximizing)).moves

\* the place of a move in a list, 0 when it is not in it
placeIn(moves, move) ==
  LET at == {i \in 1..Len(moves) : moves[i] = move}
  IN IF at = {} THEN 0 ELSE CHOOSE i \in at : \A j \in at : i <= j

\* the returned list is in descending order of the move score taken on the
\* given board, moves of equal score in the order they were generated
sortedOn(board) ==
  \A i, j \in 1..Len(nodeOrdered) :
    i < j =>
      LET a == getMoveScore(nodeOrdered[i], board, sideOf(top.isMaximizing))
          b == getMoveScore(nodeOrdered[j], board, sideOf(top.isMaximizing))
      IN a > b \/ (a = b /\ placeIn(nodeCandidates, nodeOrdered[i])
                             < placeIn(nodeCandidates, nodeOrdered[j]))

\* the node's position as a plain array, on which board[rank] is current
currentPosition == arrayBoard(top.board.squares, top.board.own)

\* C27: the list the move orderer returns for a node, from the cache or not,
\* is a rearrangement of the node's candidates (none added, none dropped) in
\* descending order of move score, candidates of equal score in the order
\* they were generated; the score is taken on the board value the node
\* passes or on its current position.
C27_OrderedIsSortedPermutation ==
  atOrdering =>
    /\ Len(nodeOrdered) = Len(nodeCandidates)
    /\ \A i \in 1..Len(nodeCandidates) :
         placeIn(nodeOrdered, nodeCandidates[i]) # 0
    /\ sortedOn(top.board) \/ sortedOn(currentPosition)

\* one side has exactly the pieces of the given types, n in all, and the
\* other side has its king only
materialPattern(squares, types, n) ==
  \E strong \in {"w", "b"} :
    /\ pieceCount(squares, strong) = n
    /\ pieceTypes(squares, strong) = types
    /\ pieceCount(squares, opponent(strong)) = 1
    /\ pieceTypes(squares, opponent(strong)) = {"k"}

\* the bonus of the pattern each endgame function is named after
patternBonus(squares) ==
  IF materialPattern(squares, {"k", "r"}, 2) THEN evaluateKRKEndgame
  ELSE IF materialPattern(squares, {"k", "r", "p"}, 3) THEN evaluateKRPKEndgame
  ELSE IF materialPattern(squares, {"k", "q"}, 2) THEN evaluateKQKEndgame
  ELSE IF materialPattern(squares, {"k", "p"}, 2) THEN evaluateKPKEndgame
  ELSE 0

\* C28: on a board of at most 6 pieces the endgame term is 500 for king and
\* rook against king, 600 for king, rook and pawn against king, 900 for king
\* and queen against king, 100 for king and pawn against king, 0 otherwise.
C28_EndgameBonusByPattern ==
  (/\ observed.op = "evaluate"
   /\ pieceCount(observed.in, "w") + pieceCount(observed.in, "b") <= 6) =>
    evaluateEndgame(observed.in) = patternBonus(observed.in)

\* C29: after construction with any level argument and any sequence of
\* setLevel calls, every getLevel() returns a value in [1,5].
C29_LevelWithinRange ==
  observed.op = "getLevel" => observed.out[1] \in 1..5

(***************************************************************************)
(* ChessMCPServer: the tool calls.  The engine's position is the sequence  *)
(* of moves played from the starting position; the chess library decides  *)
(* which moves are legal, and a move it refuses leaves its position alone. *)
(* The game here is a small one: the sides move in turn, each with two     *)
(* moves, and after GameLength plies the side to move has no legal move.   *)
(***************************************************************************)
GameLength == 3
MaxToolCalls == 4

WhiteMoves == {"e4", "d4"}
BlackMoves == {"e5", "d5"}
\* args.move: absent (falsy), a move of either side, or no move at all
MoveArgs == {""} \cup WhiteMoves \cup BlackMoves \cup {"Ke9"}
\* args.aiLevel
AiLevelArgs == {0, 3}

\* this.chess.moves({ verbose: true })
getAllLegalMoves(position) ==
  IF Len(position) >= GameLength THEN {}
  ELSE IF Len(position) % 2 = 0 THEN WhiteMoves ELSE BlackMoves

\* try { this.chess.move(move); return true } catch (error) { return false }
makeMove(position, move) ==
  IF move \in getAllLegalMoves(position)
  THEN [success |-> TRUE, position |-> Append(position, move)]
  ELSE [success |-> FALSE, position |-> position]

\* ChessEngine.getGameState: the position, its moves and the side to move
getGameState(position) ==
  [moves |-> position, turn |-> IF Len(position) % 2 = 0 THEN "w" ELSE "b"]

\* the handler returns (failed = FALSE) or throws into the catch of the
\* request handler (failed = TRUE), leaving the engine and the history as given
handled(tool, failed, position, gameHistory) ==
  /\ pc = "idle"
  /\ server.calls < MaxToolCalls
  /\ server' = [position |-> position, gameHistory |-> gameHistory,
                calls |-> server.calls + 1,
                last |-> [tool |-> tool, failed |-> failed,
                          position |-> server.position,
                          gameHistory |-> server.gameHistory]]

\* case 'start_new_game'
handleStartNewGame(aiLevel) ==
  /\ handled("start_new_game", FALSE, << >>,
             Append(server.gameHistory, getGameState(<< >>)))
  /\ level' = Max(1, Min(5, IF aiLevel = 0 THEN 1 ELSE aiLevel))
  /\ UNCHANGED <<transpositionTable, moveOrderingCache, nodesEvaluated, timeUp,
                 pc, args, callerBoard, callerMoves, drv, stack, ret, result,
                 outcome, hist, calls, lastStore, observed>>

\* a handler that records the game state before it tests the engine's answer
handleMakeMove_recordFirst(move) ==
  /\ IF move = ""
     THEN handled("make_move", TRUE, server.position, server.gameHistory)
     ELSE LET made == makeMove(server.position, move)
              gameHistory == Append(server.gameHistory,
                                    getGameState(made.position))
          IN handled("make_move", ~made.success, made.position, gameHistory)
  /\ UNCHANGED <<level, transpositionTable, moveOrderingCache, nodesEvaluated,
                 timeUp, pc, args, callerBoard, callerMoves, drv, stack, ret,
                 result, outcome, hist, calls, lastStore, observed>>

\* case 'make_move'
handleMakeMove(move) ==
  /\ IF move = ""
     THEN handled("make_move", TRUE, server.position, server.gameHistory)
     ELSE LET made == makeMove(server.position, move)
          IN IF ~made.success
             THEN handled("make_move", TRUE, made.position, server.gameHistory)
             ELSE handled("make_move", FALSE, made.position,
                          Append(server.gameHistory,
                                 getGameState(made.position)))
  /\ UNCHANGED <<level, transpositionTable, moveOrderingCache, nodesEvaluated,
                 timeUp, pc, args, callerBoard, callerMoves, drv, stack, ret,
                 result, outcome, hist, calls, lastStore, observed>>

\* case 'reset_game'
handleResetGame ==
  /\ handled("reset_game", FALSE, << >>,
             Append(server.gameHistory, getGameState(<< >>)))
  /\ UNCHANGED <<level, transpositionTable, moveOrderingCache, nodesEvaluated,
                 timeUp, pc, args, callerBoard, callerMoves, drv, stack, ret,
                 result, outcome, hist, calls, lastStore, observed>>

\* case 'ai_move'; the move the AI answers with is any move of either side,
\* so that the engine may refuse it
handleAIMove ==
  /\ IF getAllLegalMoves(server.position) = {}
     THEN handled("ai_move", TRUE, server.position, server.gameHistory)
     ELSE \E aiMove \in WhiteMoves \cup BlackMoves :
            LET made == makeMove(server.position, aiMove)
            IN IF ~made.success
               THEN handled("ai_move", TRUE, made.position, server.gameHistory)
               ELSE handled("ai_move", FALSE, made.position,
                            Append(server.gameHistory,
                                   getGameState(made.position)))
  /\ UNCHANGED <<level, transpositionTable, moveOrderingCache, nodesEvaluated,
                 timeUp, pc, args, callerBoard, callerMoves, drv, stack, ret,
                 result, outcome, hist, calls, lastStore, observed>>

\* default: throw new Error(`Unknown tool: ${name}`)
unknownTool ==
  /\ handled("unknown", TRUE, server.position, server.gameHistory)
  /\ UNCHANGED <<level, transpositionTable, moveOrderingCache, nodesEvaluated,
                 timeUp, pc, args, callerBoard, callerMoves, drv, stack, ret,
                 result, outcome, hist, calls, lastStore, observed>>

NextServer ==
  \/ \E aiLevel \in AiLevelArgs : handleStartNewGame(aiLevel)
  \/ \E move \in MoveArgs : handleMakeMove(move)
  \/ handleResetGame
  \/ handleAIMove
  \/ unknownTool

SpecServer == Init /\ [][NextServer]_vars

\* C30: when a tool call fails (the move is missing or refused, the AI has no
\* legal move, the engine refuses the AI's move, the tool name is unknown), the
\* engine's position and the server's gameHistory are what they were before
\* the call.
C30_FailedCallChangesNothing ==
  server.last.failed =>
    /\ server.position = server.last.position
    /\ server.gameHistory = server.last.gameHistory

C30_Witness ==
  /\ server.last.tool = "make_move"
  /\ server.last.failed
  /\ Len(server.position) = 2
  /\ Len(server.gameHistory) = 3

====
